---- MODULE Spec2Model ----
(***************************************************************************)
(* A model of the scene reader of usvg-scenes (src/reader.hpp): the        *)
(* constructor scene::scene, the section readers read_diffusion_curves,    *)
(* read_poisson_curves and read_gradient_meshes, and the primitive readers *)
(* read_points, read_colors and read_color_points.                         *)
(*                                                                         *)
(* The XML document is the environment's input.  The reader walks it in    *)
(* one pass, so each action draws the element it reads from a bounded set  *)
(* at the moment the code looks it up.  Doubles are modelled as exact      *)
(* rationals <<n, d>> with d > 0 in lowest terms.                          *)
(***************************************************************************)
EXTENDS Integers, Sequences, FiniteSets, TLC

VARIABLES
    pc,               \* position of the constructor
    doc_type,         \* the first line of the file (reader.hpp:137-138)
    reader,           \* the branch of the constructor taken: "none", "unified", "orzan"
    traversed,        \* whether an element of the parsed document has been looked up
    root_attrs,       \* the attributes of the root element, as the document states them
    present,          \* which of the three sections FirstChildElement found
    declared,         \* the nb_curves / nb_meshes each section declared
    width,            \* scene::width
    height,           \* scene::height
    num,              \* num_curves / num_meshes of the running section loop
    i,                \* loop index of the running section loop
    cur,              \* the curve / mesh element of the last loop iteration
    diffusion_curves, \* scene::diffusion_curves
    poisson_curves,   \* scene::poisson_curves
    gradient_meshes,  \* scene::gradient_meshes
    err,              \* the exception in flight, if any
    result,           \* what the caller of the constructor holds
    args,             \* arguments of the last direct call of a primitive reader
    ret               \* what that call delivered

vars == <<pc, doc_type, reader, traversed, root_attrs, present, declared, width,
          height, num, i, cur, diffusion_curves, poisson_curves,
          gradient_meshes, err, result, args, ret>>

-----------------------------------------------------------------------------
(* Bounds of the model.                                                    *)

\* longest list of point children a document of the model holds
MaxPoints == 2
\* longest list of color children
MaxColors == 2
\* longest list of color-point children
MaxColorPoints == 3
\* most curve / mesh children a section of the model holds
MaxRecords == 2
\* most curve children of a document of the curve-set specification
MaxCurves == 1

-----------------------------------------------------------------------------
(* Doubles as exact rationals.                                             *)

Abs(n) == IF n < 0 THEN -n ELSE n

RECURSIVE GCD(_, _)
GCD(a, b) == IF b = 0 THEN a ELSE GCD(b, a % b)

Rat(n, d) ==
    LET g == GCD(Abs(n), Abs(d))
        s == IF d < 0 THEN -1 ELSE 1
    IN  <<(s * n) \div g, (s * d) \div g>>

RInt(n) == <<n, 1>>
RMul(a, b) == Rat(a[1] * b[1], a[2] * b[2])
RDiv(a, b) == Rat(a[1] * b[2], a[2] * b[1])
RGt(a, b) == a[1] * b[2] > b[1] * a[2]
RLe(a, b) == ~RGt(a, b)
RMax(a, b) == IF RGt(b, a) THEN b ELSE a

Zero == RInt(0)
One == RInt(1)

Max0(n) == IF n > 0 THEN n ELSE 0

-----------------------------------------------------------------------------
(* Attributes.  An attribute of an element is absent, present with text    *)
(* that does not convert ("bad"), or present with a number.                *)

Absent == [st |-> "absent", v |-> Zero]
Bad == [st |-> "bad", v |-> Zero]
Num(r) == [st |-> "num", v |-> r]

IAbsent == [st |-> "absent", v |-> 0]
IBad == [st |-> "bad", v |-> 0]
INum(n) == [st |-> "num", v |-> n]

\* XMLElement::Attribute(name) != nullptr
HasAttribute(a) == a.st # "absent"

\* XMLElement::QueryDoubleAttribute(name, &target): target is written only when
\* the attribute is there and converts; `target` is the value it held before.
QueryDoubleAttribute(a, target) == IF a.st = "num" THEN a.v ELSE target

\* XMLElement::QueryIntAttribute(name, &target)
QueryIntAttribute(a, target) == IF a.st = "num" THEN a.v ELSE target

\* XMLElement::QueryBoolAttribute(name, &target)
QueryBoolAttribute(a, target) == IF a.st = "num" THEN a.v ELSE target

-----------------------------------------------------------------------------
(* Exceptions.  A runtime_error is its fixed text, the child name spliced  *)
(* into it (or ""), and the std::to_string(i) appended to it (or NoIndex). *)

NoIndex == -1

Error(msg, tag, index) == [msg |-> msg, tag |-> tag, index |-> index]
NoError == Error("", "", NoIndex)

Ok(val) == [ok |-> TRUE, val |-> val, err |-> NoError]
Fail(e) == [ok |-> FALSE, val |-> <<>>, err |-> e]

-----------------------------------------------------------------------------
(* Primitive readers.  `children` is the list of the parent's children     *)
(* named child_name, in document order: what FirstChildElement(name) and   *)
(* then NextSiblingElement(name) walk through, nullptr after the last.     *)
(* `garbage` is the indeterminate value of the uninitialised array p, c or *)
(* cp, which a Query...Attribute that writes nothing leaves in place.      *)

\* divisor of an uppercase channel
ChannelScale == 255

\* stands for std::numeric_limits<double>::max(): larger than every value
\* a document of the model holds
DoubleMax == 1000000

\* reader.hpp:466-470
ScalePoint(p, h, w) == <<RMul(p[1], RInt(h)), RMul(p[2], RInt(w))>>

\* PointOf with the exchange made before the scaling: what C8 rules out
PointOfSwapFirst(e, is_normalized, swap, h, w, garbage) ==
    LET p  == <<QueryDoubleAttribute(e.x, garbage), QueryDoubleAttribute(e.y, garbage)>>
        ps == IF swap THEN <<p[2], p[1]>> ELSE p
    IN  IF is_normalized THEN ScalePoint(ps, h, w) ELSE ps

\* reader.hpp:462-478, one iteration of the loop of read_points
PointOf(e, is_normalized, swap, h, w, garbage) ==
    LET p  == <<QueryDoubleAttribute(e.x, garbage), QueryDoubleAttribute(e.y, garbage)>>
        pn == IF is_normalized THEN ScalePoint(p, h, w) ELSE p
    IN  IF swap THEN <<pn[2], pn[1]>> ELSE pn

\* read_points delivering the children there are when they are fewer than the
\* declared count: what C12 rules out
read_points_short(children, child_name, num_points, is_normalized, swap, h, w, garbage) ==
    IF children = <<>>
    THEN Fail(Error("Cannot read ", child_name, NoIndex))
    ELSE LET n == IF num_points > Len(children) THEN Len(children) ELSE Max0(num_points)
         IN  Ok([k \in 1..n |-> PointOf(children[k], is_normalized, swap, h, w, garbage)])

\* reader.hpp:447-481
read_points(children, child_name, num_points, is_normalized, swap, h, w, garbage) ==
    IF children = <<>>
    THEN Fail(Error("Cannot read ", child_name, NoIndex))
    ELSE IF num_points > Len(children)
    THEN Fail(Error("Cannot read ", child_name, Len(children)))
    ELSE Ok([k \in 1..Max0(num_points) |->
                PointOf(children[k], is_normalized, swap, h, w, garbage)])

\* DecodeChannel preferring the lowercase attribute: what C9 rules out
DecodeChannelLowerFirst(upper, lower, garbage) ==
    IF HasAttribute(lower)
    THEN QueryDoubleAttribute(lower, garbage)
    ELSE RDiv(QueryDoubleAttribute(upper, garbage), RInt(ChannelScale))

\* reader.hpp:507-515, and the same for G/g and B/b: one channel of a color
DecodeChannel(upper, lower, garbage) ==
    IF HasAttribute(upper)
    THEN RDiv(QueryDoubleAttribute(upper, garbage), RInt(ChannelScale))
    ELSE QueryDoubleAttribute(lower, garbage)

\* reader.hpp:506-541 and 572-607: the three channels, then the R/B swap
ColorOf(e, swap, garbage) ==
    LET c == <<DecodeChannel(e.R, e.r, garbage),
               DecodeChannel(e.G, e.g, garbage),
               DecodeChannel(e.B, e.b, garbage)>>
    IN  IF swap THEN <<c[3], c[2], c[1]>> ELSE c

\* reader.hpp:491-546
read_colors(children, child_name, num_colors, swap, garbage) ==
    IF children = <<>>
    THEN Fail(Error("Cannot read ", child_name, NoIndex))
    ELSE IF num_colors > Len(children)
    THEN Fail(Error("Cannot read ", child_name, Len(children)))
    ELSE Ok([k \in 1..Max0(num_colors) |-> ColorOf(children[k], swap, garbage)])

\* reader.hpp:572-609: one color point as pushed by the loop, before the
\* normalisation pass
ColorPointOf(e, swap, garbage) ==
    LET c == ColorOf(e, swap, garbage)
    IN  <<c[1], c[2], c[3], QueryDoubleAttribute(e.globalID, garbage)>>

\* reader.hpp:564 and 610-613: maxT after the first k iterations
RECURSIVE MaxT(_, _)
MaxT(cps, k) ==
    IF k = 0
    THEN RInt(-DoubleMax)
    ELSE LET m == MaxT(cps, k - 1)
         IN  IF RGt(cps[k][4], One) THEN RMax(m, cps[k][4]) ELSE m

\* Normalize dividing each entry by itself instead of by the maximum of the
\* sequence: what C7 rules out
NormalizePerEntry(cps) ==
    [k \in 1..Len(cps) |->
        IF RGt(cps[k][4], One)
        THEN <<cps[k][1], cps[k][2], cps[k][3], One>>
        ELSE cps[k]]

\* reader.hpp:619-626
Normalize(cps) ==
    LET maxT == MaxT(cps, Len(cps))
    IN  IF RGt(maxT, One)
        THEN [k \in 1..Len(cps) |->
                <<cps[k][1], cps[k][2], cps[k][3], RDiv(cps[k][4], maxT)>>]
        ELSE cps

\* reader.hpp:556-627
read_color_points(children, child_name, num_points, swap, garbage) ==
    IF children = <<>>
    THEN Fail(Error("Cannot read ", child_name, NoIndex))
    ELSE IF num_points > Len(children)
    THEN Fail(Error("Cannot read ", child_name, Len(children)))
    ELSE Ok(Normalize([k \in 1..Max0(num_points) |->
                          ColorPointOf(children[k], swap, garbage)]))

-----------------------------------------------------------------------------
(* Elements of a document.  A child set (control_points_set, position_set, *)
(* left_colors_set, ...) is what FirstChildElement(name) finds on the      *)
(* curve or mesh: nothing, or an element with its children of the name the *)
(* reader walks, in document order.                                        *)

PointElement(x, y) == [x |-> x, y |-> y]
ColorElement(R, r, G, g, B, b) ==
    [R |-> R, r |-> r, G |-> G, g |-> g, B |-> B, b |-> b]
ColorPointElement(R, r, G, g, B, b, globalID) ==
    [R |-> R, r |-> r, G |-> G, g |-> g, B |-> B, b |-> b, globalID |-> globalID]

ChildSet(kids) == [present |-> TRUE, boundary |-> "", kids |-> kids]
SideSet(boundary, kids) == [present |-> TRUE, boundary |-> boundary, kids |-> kids]
NoChildSet == [present |-> FALSE, boundary |-> "", kids |-> <<>>]

TangentSet(kidsU, kidsV) == [present |-> TRUE, kidsU |-> kidsU, kidsV |-> kidsV]
NoTangentSet == [present |-> FALSE, kidsU |-> <<>>, kidsV |-> <<>>]

\* NextSiblingElement / FirstChildElement returned nullptr
NoElement == [tag |-> "none"]

-----------------------------------------------------------------------------
(* One iteration of the loop of read_diffusion_curves on the curve element *)
(* e at loop index idx; g holds the indeterminate values of its three      *)
(* primitive reads.                                                        *)

\* reader.hpp:258-265 and 280-287
BoundaryOf(set) == IF set.boundary = "Neumann" THEN "Neumann" ELSE "Dirichlet"

\* AssembleCurve exchanging the colors but not the boundary conditions: what
\* C5 rules out
AssembleCurveColorsOnly(control_points, colors_left, colors_right, boundary_left, boundary_right, swap) ==
    [control_points |-> control_points,
     colors_left    |-> IF swap THEN colors_right ELSE colors_left,
     colors_right   |-> IF swap THEN colors_left ELSE colors_right,
     boundary_left  |-> boundary_left,
     boundary_right |-> boundary_right]

\* reader.hpp:293-299
AssembleCurve(control_points, colors_left, colors_right, boundary_left, boundary_right, swap) ==
    [control_points |-> control_points,
     colors_left    |-> IF swap THEN colors_right ELSE colors_left,
     colors_right   |-> IF swap THEN colors_left ELSE colors_right,
     boundary_left  |-> IF swap THEN boundary_right ELSE boundary_left,
     boundary_right |-> IF swap THEN boundary_left ELSE boundary_right]

\* reader.hpp:237-299
ParseDiffusionCurve(e, idx, swap, h, w, g) ==
    LET num_control_points == QueryIntAttribute(e.nb_control_points, 0)
        num_colors_left    == QueryIntAttribute(e.nb_left_colors, 0)
        num_colors_right   == QueryIntAttribute(e.nb_right_colors, 0)
        control_points == read_points(e.control_points_set.kids, "control_point",
                                      num_control_points, FALSE, swap, h, w, g[1])
        colors_left    == read_color_points(e.left_colors_set.kids, "left_color",
                                            num_colors_left, swap, g[2])
        colors_right   == read_color_points(e.right_colors_set.kids, "right_color",
                                            num_colors_right, swap, g[3])
    IN  IF ~e.control_points_set.present
        THEN Fail(Error("Cannot read control points of diffusion curve ", "", idx))
        ELSE IF ~control_points.ok
        THEN Fail(control_points.err)
        ELSE IF ~e.left_colors_set.present
        THEN Fail(Error("Cannot read left colors of diffusion curve ", "", idx))
        ELSE IF ~colors_left.ok
        THEN Fail(colors_left.err)
        ELSE IF ~e.right_colors_set.present
        THEN Fail(Error("Cannot read right colors of diffusion curve ", "", idx))
        ELSE IF ~colors_right.ok
        THEN Fail(colors_right.err)
        ELSE Ok(AssembleCurve(control_points.val, colors_left.val, colors_right.val,
                              BoundaryOf(e.left_colors_set),
                              BoundaryOf(e.right_colors_set), swap))

\* reader.hpp:321-349: one iteration of the loop of read_poisson_curves
ParsePoissonCurve(e, idx, h, w, g) ==
    LET num_control_points == QueryIntAttribute(e.nb_control_points, 0)
        num_weights        == QueryIntAttribute(e.nb_weights, 0)
        control_points == read_points(e.control_points_set.kids, "control_point",
                                      num_control_points, FALSE, FALSE, h, w, g[1])
        weights        == read_color_points(e.weights_set.kids, "weight",
                                            num_weights, FALSE, g[2])
    IN  IF ~e.control_points_set.present
        THEN Fail(Error("Cannot read control points of diffusion curve ", "", idx))
        ELSE IF ~control_points.ok
        THEN Fail(control_points.err)
        ELSE IF ~e.weights_set.present
        THEN Fail(Error("Cannot read weights of Poisson curve ", "", idx))
        ELSE IF ~weights.ok
        THEN Fail(weights.err)
        ELSE Ok([control_points |-> control_points.val, weights |-> weights.val])

\* reader.hpp:382 and 400: (num_rows + 1) * (num_cols + 1).  The model's
\* values stay far inside int, where the product does not overflow.
MeshSize(num_rows, num_cols) == (num_rows + 1) * (num_cols + 1)

\* reader.hpp:371-431: one iteration of the loop of read_gradient_meshes
ParseGradientMesh(e, idx, h, w, g) ==
    LET num_rows      == QueryIntAttribute(e.nb_rows, 0)
        num_cols      == QueryIntAttribute(e.nb_cols, 0)
        is_normalized == QueryBoolAttribute(e.normalized, FALSE)
        num_positions == QueryIntAttribute(e.nb_positions, 0)
        num_colors    == QueryIntAttribute(e.nb_colors, 0)
        positions  == read_points(e.position_set.kids, "position", num_positions,
                                  is_normalized, FALSE, h, w, g[1])
        colors     == read_colors(e.color_set.kids, "color", num_colors, FALSE, g[2])
        tangents_u == read_points(e.pos_tangent_set.kidsU, "positionU", num_positions,
                                  is_normalized, FALSE, h, w, g[3])
        tangents_v == read_points(e.pos_tangent_set.kidsV, "positionV", num_positions,
                                  is_normalized, FALSE, h, w, g[4])
    IN  IF num_positions # MeshSize(num_rows, num_cols)
        THEN Fail(Error("Number of positions does not match the mesh size in mesh ", "", idx))
        ELSE IF ~e.position_set.present
        THEN Fail(Error("Cannot read positions of mesh ", "", idx))
        ELSE IF ~positions.ok
        THEN Fail(positions.err)
        ELSE IF num_colors # MeshSize(num_rows, num_cols)
        THEN Fail(Error("Number of colors does not match the mesh size in mesh ", "", idx))
        ELSE IF ~e.color_set.present
        THEN Fail(Error("Cannot read colors of mesh ", "", idx))
        ELSE IF ~colors.ok
        THEN Fail(colors.err)
        ELSE IF e.pos_tangent_set.present /\ ~tangents_u.ok
        THEN Fail(tangents_u.err)
        ELSE IF e.pos_tangent_set.present /\ ~tangents_v.ok
        THEN Fail(tangents_v.err)
        ELSE Ok([num_rows   |-> num_rows,
                 num_cols   |-> num_cols,
                 positions  |-> positions.val,
                 colors     |-> colors.val,
                 tangents_u |-> IF e.pos_tangent_set.present THEN tangents_u.val ELSE <<>>,
                 tangents_v |-> IF e.pos_tangent_set.present THEN tangents_v.val ELSE <<>>])

-----------------------------------------------------------------------------
(* The constructor scene::scene(_path) and what its caller gets.           *)

Scene(w, h, dc, pcs, gm) ==
    [width |-> w, height |-> h, diffusion_curves |-> dc,
     poisson_curves |-> pcs, gradient_meshes |-> gm]

EmptyScene == Scene(0, 0, <<>>, <<>>, <<>>)

\* the object under construction
This == Scene(width, height, diffusion_curves, poisson_curves, gradient_meshes)

\* main.cpp:13 `scene scene1(path1);`: the constructor ran to its end and the
\* caller holds the object
Returned(s) == [has |-> TRUE, scene |-> s]

\* Thrown leaving the partly built scene with the caller: what C4 rules out
ThrownPartial(s) == [has |-> TRUE, scene |-> s]

\* an exception left the constructor (reader.hpp:135-194): the members built so
\* far are destroyed and the caller's variable never comes to exist
Thrown(s) == [has |-> FALSE, scene |-> EmptyScene]

NoResult == [has |-> FALSE, scene |-> EmptyScene]

\* SelectReader taking any first line that is not the legacy marker as the
\* unified one: what C3 rules out
SelectReaderLoose(line) ==
    IF line = "<!DOCTYPE CurveSetXML>" THEN "orzan" ELSE "unified"

\* reader.hpp:149 and 179: the branch the first line selects
SelectReader(line) ==
    IF line = "<!DOCTYPE SceneXML>" THEN "unified"
    ELSE IF line = "<!DOCTYPE CurveSetXML>" THEN "orzan"
    ELSE "none"

\* reader.hpp:163 and 190: the _swap argument of read_diffusion_curves
SwapOf(r) == r = "orzan"

\* ReadsSection entering a section that is not there: what C10 rules out
ReadsSectionAlways(found) == TRUE

\* reader.hpp:161, 167 and 173: `if (..._element != nullptr)`
ReadsSection(found) == found

NoSections == [curve_set |-> FALSE, poisson_curve_set |-> FALSE, mesh_set |-> FALSE]
NoCounts == [curve_set |-> 0, poisson_curve_set |-> 0, mesh_set |-> 0]
NoRoot == [present |-> FALSE, image_width |-> IAbsent, image_height |-> IAbsent]
Call(fn, children, child_name, n, is_normalized, swap) ==
    [fn |-> fn, children |-> children, child_name |-> child_name, num |-> n,
     is_normalized |-> is_normalized, swap |-> swap]
NoCall == Call("", <<>>, "", 0, FALSE, FALSE)

Init ==
    /\ pc = "construct"
    /\ doc_type = ""
    /\ reader = "none"
    /\ traversed = FALSE
    /\ root_attrs = NoRoot
    /\ present = NoSections
    /\ declared = NoCounts
    /\ width = 0
    /\ height = 0
    /\ num = 0
    /\ i = 0
    /\ cur = NoElement
    /\ diffusion_curves = <<>>
    /\ poisson_curves = <<>>
    /\ gradient_meshes = <<>>
    /\ err = NoError
    /\ result = NoResult
    /\ args = NoCall
    /\ ret = Ok(<<>>)

\* throw std::runtime_error(e) out of the constructor
Throw(e) ==
    /\ pc' = "failed"
    /\ err' = e
    /\ result' = Thrown(This)
    /\ diffusion_curves' = <<>>
    /\ poisson_curves' = <<>>
    /\ gradient_meshes' = <<>>

\* reader.hpp:132-139: open the file and read its first line
OpenFile(lines) ==
    /\ pc = "construct"
    /\ \E good \in BOOLEAN, line \in lines :
         IF ~good
         THEN /\ Throw(Error("Cannot load XML file: ", "", NoIndex))
              /\ UNCHANGED doc_type
         ELSE /\ doc_type' = line
              /\ pc' = "load"
              /\ UNCHANGED <<err, result, diffusion_curves, poisson_curves, gradient_meshes>>
    /\ UNCHANGED <<reader, traversed, root_attrs, present, declared, width, height,
                   num, i, cur, args, ret>>

\* reader.hpp:142-146: tinyxml2 parses the whole file
LoadFile ==
    /\ pc = "load"
    /\ \E xml_success \in BOOLEAN :
         IF ~xml_success
         THEN Throw(Error("Cannot load XML file: ", "", NoIndex))
         ELSE /\ pc' = "dispatch"
              /\ UNCHANGED <<err, result, diffusion_curves, poisson_curves, gradient_meshes>>
    /\ UNCHANGED <<doc_type, reader, traversed, root_attrs, present, declared, width,
                   height, num, i, cur, args, ret>>

\* reader.hpp:149-158, 179-188 and 192-195: the branch on doc_type, the lookup
\* of the root element and its image_width / image_height
Dispatch(roots) ==
    /\ pc = "dispatch"
    /\ IF SelectReader(doc_type) = "none"
       THEN /\ Throw(Error("Unrecognized DOCTYPE in XML", "", NoIndex))
            /\ UNCHANGED <<reader, traversed, root_attrs, width, height>>
       ELSE \E root \in roots :
              /\ reader' = SelectReader(doc_type)
              /\ traversed' = TRUE
              /\ root_attrs' = root
              /\ IF ~root.present
                 THEN /\ Throw(Error("Cannot find scene in XML file", "", NoIndex))
                      /\ UNCHANGED <<width, height>>
                 ELSE /\ width' = QueryIntAttribute(root.image_width, width)
                      /\ height' = QueryIntAttribute(root.image_height, height)
                      /\ pc' = "curve_set"
                      /\ UNCHANGED <<err, result, diffusion_curves, poisson_curves,
                                     gradient_meshes>>
    /\ UNCHANGED <<doc_type, present, declared, num, i, cur, args, ret>>

\* reader.hpp:160-164 (unified: the curve_set child, if any) and 190 (orzan:
\* the root itself), then 227-229: nb_curves
BeginDiffusionCurves(presence, counts) ==
    /\ pc = "curve_set"
    /\ \E found \in presence, nb_curves \in counts :
         IF reader = "unified" /\ ~ReadsSection(found)
         THEN /\ pc' = "poisson_curve_set"
              /\ present' = [present EXCEPT !.curve_set = found]
              /\ UNCHANGED <<declared, num>>
         ELSE /\ pc' = "curves"
              /\ present' = [present EXCEPT !.curve_set = (reader = "orzan" \/ found)]
              /\ num' = QueryIntAttribute(nb_curves, 0)
              /\ declared' = [declared EXCEPT !.curve_set = QueryIntAttribute(nb_curves, 0)]
    /\ i' = 0
    /\ UNCHANGED <<doc_type, reader, traversed, root_attrs, width, height, cur,
                   diffusion_curves, poisson_curves, gradient_meshes, err, result,
                   args, ret>>

\* reader.hpp:230-302: one iteration of the loop
ReadDiffusionCurve(curves, garbages, max_children) ==
    /\ pc = "curves"
    /\ i < num
    /\ \E more \in BOOLEAN :
         IF ~(more /\ i < max_children)
         THEN /\ Throw(Error("Cannot read curve ", "", i))
              /\ cur' = NoElement
              /\ UNCHANGED i
         ELSE \E e \in curves, g \in [1..3 -> garbages] :
                LET curve == ParseDiffusionCurve(e, i, SwapOf(reader), height, width, g)
                IN  /\ cur' = e
                    /\ IF ~curve.ok
                       THEN /\ Throw(curve.err)
                            /\ UNCHANGED i
                       ELSE /\ diffusion_curves' = Append(diffusion_curves, curve.val)
                            /\ i' = i + 1
                            /\ UNCHANGED <<pc, err, result, poisson_curves, gradient_meshes>>
    /\ UNCHANGED <<doc_type, reader, traversed, root_attrs, present, declared, width,
                   height, num, args, ret>>

\* EndDiffusionCurves leaving the loop one curve early: what C14 rules out
EndDiffusionCurvesEarly ==
    /\ pc = "curves"
    /\ ~(i + 1 < num)
    /\ pc' = IF reader = "unified" THEN "poisson_curve_set" ELSE "return"
    /\ cur' = NoElement
    /\ num' = 0
    /\ i' = 0
    /\ UNCHANGED <<doc_type, reader, traversed, root_attrs, present, declared, width,
                   height, diffusion_curves, poisson_curves, gradient_meshes, err,
                   result, args, ret>>

\* reader.hpp:230 and 303: the loop ends and read_diffusion_curves returns, in
\* the unified branch to 166, in the orzan branch to the constructor's end
EndDiffusionCurves ==
    /\ pc = "curves"
    /\ ~(i < num)
    /\ pc' = IF reader = "unified" THEN "poisson_curve_set" ELSE "return"
    /\ cur' = NoElement
    /\ num' = 0
    /\ i' = 0
    /\ UNCHANGED <<doc_type, reader, traversed, root_attrs, present, declared, width,
                   height, diffusion_curves, poisson_curves, gradient_meshes, err,
                   result, args, ret>>

\* reader.hpp:166-170, then 311-313: the poisson_curve_set child and nb_curves
BeginPoissonCurves(presence, counts) ==
    /\ pc = "poisson_curve_set"
    /\ \E found \in presence, nb_curves \in counts :
         IF ~ReadsSection(found)
         THEN /\ pc' = "mesh_set"
              /\ present' = [present EXCEPT !.poisson_curve_set = found]
              /\ UNCHANGED <<declared, num>>
         ELSE /\ pc' = "poisson_curves"
              /\ present' = [present EXCEPT !.poisson_curve_set = found]
              /\ num' = QueryIntAttribute(nb_curves, 0)
              /\ declared' = [declared EXCEPT
                                !.poisson_curve_set = QueryIntAttribute(nb_curves, 0)]
    /\ i' = 0
    /\ UNCHANGED <<doc_type, reader, traversed, root_attrs, width, height, cur,
                   diffusion_curves, poisson_curves, gradient_meshes, err, result,
                   args, ret>>

\* reader.hpp:314-352: one iteration of the loop
ReadPoissonCurve(curves, garbages, max_children) ==
    /\ pc = "poisson_curves"
    /\ i < num
    /\ \E more \in BOOLEAN :
         IF ~(more /\ i < max_children)
         THEN /\ Throw(Error("Cannot read curve ", "", i))
              /\ cur' = NoElement
              /\ UNCHANGED i
         ELSE \E e \in curves, g \in [1..2 -> garbages] :
                LET curve == ParsePoissonCurve(e, i, height, width, g)
                IN  /\ cur' = e
                    /\ IF ~curve.ok
                       THEN /\ Throw(curve.err)
                            /\ UNCHANGED i
                       ELSE /\ poisson_curves' = Append(poisson_curves, curve.val)
                            /\ i' = i + 1
                            /\ UNCHANGED <<pc, err, result, diffusion_curves, gradient_meshes>>
    /\ UNCHANGED <<doc_type, reader, traversed, root_attrs, present, declared, width,
                   height, num, args, ret>>

\* reader.hpp:314 and 353
EndPoissonCurves ==
    /\ pc = "poisson_curves"
    /\ ~(i < num)
    /\ pc' = "mesh_set"
    /\ cur' = NoElement
    /\ num' = 0
    /\ i' = 0
    /\ UNCHANGED <<doc_type, reader, traversed, root_attrs, present, declared, width,
                   height, diffusion_curves, poisson_curves, gradient_meshes, err,
                   result, args, ret>>

\* reader.hpp:172-176, then 361-363: the mesh_set child and nb_meshes
BeginGradientMeshes(presence, counts) ==
    /\ pc = "mesh_set"
    /\ \E found \in presence, nb_meshes \in counts :
         IF ~ReadsSection(found)
         THEN /\ pc' = "return"
              /\ present' = [present EXCEPT !.mesh_set = found]
              /\ UNCHANGED <<declared, num>>
         ELSE /\ pc' = "meshes"
              /\ present' = [present EXCEPT !.mesh_set = found]
              /\ num' = QueryIntAttribute(nb_meshes, 0)
              /\ declared' = [declared EXCEPT !.mesh_set = QueryIntAttribute(nb_meshes, 0)]
    /\ i' = 0
    /\ UNCHANGED <<doc_type, reader, traversed, root_attrs, width, height, cur,
                   diffusion_curves, poisson_curves, gradient_meshes, err, result,
                   args, ret>>

\* reader.hpp:364-435: one iteration of the loop
ReadGradientMesh(meshes, garbages, max_children) ==
    /\ pc = "meshes"
    /\ i < num
    /\ \E more \in BOOLEAN :
         IF ~(more /\ i < max_children)
         THEN /\ Throw(Error("Cannot read mesh ", "", i))
              /\ cur' = NoElement
              /\ UNCHANGED i
         ELSE \E e \in meshes, g \in [1..4 -> garbages] :
                LET mesh == ParseGradientMesh(e, i, height, width, g)
                IN  /\ cur' = e
                    /\ IF ~mesh.ok
                       THEN /\ Throw(mesh.err)
                            /\ UNCHANGED i
                       ELSE /\ gradient_meshes' = Append(gradient_meshes, mesh.val)
                            /\ i' = i + 1
                            /\ UNCHANGED <<pc, err, result, diffusion_curves, poisson_curves>>
    /\ UNCHANGED <<doc_type, reader, traversed, root_attrs, present, declared, width,
                   height, num, args, ret>>

\* reader.hpp:364 and 436
EndGradientMeshes ==
    /\ pc = "meshes"
    /\ ~(i < num)
    /\ pc' = "return"
    /\ cur' = NoElement
    /\ num' = 0
    /\ i' = 0
    /\ UNCHANGED <<doc_type, reader, traversed, root_attrs, present, declared, width,
                   height, diffusion_curves, poisson_curves, gradient_meshes, err,
                   result, args, ret>>

\* reader.hpp:196: the constructor returns
Return ==
    /\ pc = "return"
    /\ pc' = "done"
    /\ result' = Returned(This)
    /\ UNCHANGED <<doc_type, reader, traversed, root_attrs, present, declared, width,
                   height, num, i, cur, diffusion_curves, poisson_curves,
                   gradient_meshes, err, args, ret>>

-----------------------------------------------------------------------------
(* The documents of the model.                                             *)

CurveElement(nbp, pset, nbl, lset, nbr, rset) ==
    [tag |-> "curve", nb_control_points |-> nbp, control_points_set |-> pset,
     nb_left_colors |-> nbl, left_colors_set |-> lset,
     nb_right_colors |-> nbr, right_colors_set |-> rset]

PoissonElement(nbp, pset, nbw, wset) ==
    [tag |-> "poisson_curve", nb_control_points |-> nbp, control_points_set |-> pset,
     nb_weights |-> nbw, weights_set |-> wset]

MeshElement(rows, cols, normalized, nbp, pset, nbc, cset, tset) ==
    [tag |-> "mesh", nb_rows |-> rows, nb_cols |-> cols, normalized |-> normalized,
     nb_positions |-> nbp, position_set |-> pset, nb_colors |-> nbc,
     color_set |-> cset, pos_tangent_set |-> tset]

BAbsent == [st |-> "absent", v |-> FALSE]
BTrue == [st |-> "num", v |-> TRUE]

\* first lines: the two markers, and lines that are neither
FirstLines ==
    {"<!DOCTYPE SceneXML>", "<!DOCTYPE CurveSetXML>", "<!DOCTYPE SceneXML> ",
     "<!doctype scenexml>", "<?xml version=1.0?>"}

\* root elements: none, or one with its image_width and image_height
Roots ==
    {NoRoot,
     [present |-> TRUE, image_width |-> INum(200), image_height |-> INum(100)],
     [present |-> TRUE, image_width |-> IBad, image_height |-> IAbsent]}

\* nb_curves / nb_meshes of a section
SectionCounts ==
    {IAbsent, INum(-1), INum(1), INum(MaxRecords), INum(MaxRecords + 1)}

\* indeterminate values of an uninitialised double
Garbage == {RInt(7), Rat(-1, 2)}

P35 == PointElement(Num(RInt(3)), Num(RInt(5)))
PHalf == PointElement(Num(Rat(1, 2)), Num(Rat(1, 4)))
PNoX == PointElement(Absent, Num(RInt(5)))

Upper(R, G, B, t) ==
    ColorPointElement(Num(RInt(R)), Absent, Num(RInt(G)), Absent, Num(RInt(B)), Absent, t)
Lower(r, g, b, t) ==
    ColorPointElement(Absent, Num(r), Absent, Num(g), Absent, Num(b), t)

UpperColor(R, G, B) ==
    ColorElement(Num(RInt(R)), Absent, Num(RInt(G)), Absent, Num(RInt(B)), Absent)
LowerColor(r, g, b) ==
    ColorElement(Absent, Num(r), Absent, Num(g), Absent, Num(b))

\* curve elements of the whole-document specification
Curves ==
    {CurveElement(INum(2), ChildSet(<<P35, PHalf>>),
                  INum(1), SideSet("Neumann", <<Upper(255, 0, 0, Num(Zero))>>),
                  INum(2), SideSet("", <<Lower(Zero, Rat(1, 2), One, Num(RInt(2))),
                                         Upper(0, 128, 255, Num(RInt(4)))>>)),
     CurveElement(INum(1), ChildSet(<<P35, PHalf>>),
                  INum(0), SideSet("Dirichlet", <<Upper(255, 0, 0, Num(Zero))>>),
                  INum(1), SideSet("Neumann", <<Upper(0, 128, 255, Num(One))>>)),
     CurveElement(INum(1), ChildSet(<<PNoX>>),
                  IAbsent, SideSet("", <<Upper(255, 0, 0, Absent)>>),
                  INum(-1), SideSet("", <<Upper(255, 0, 0, Num(Zero))>>)),
     CurveElement(INum(1), NoChildSet,
                  INum(1), SideSet("", <<Upper(255, 0, 0, Num(Zero))>>),
                  INum(1), SideSet("", <<Upper(255, 0, 0, Num(Zero))>>)),
     CurveElement(INum(3), ChildSet(<<P35, PHalf>>),
                  INum(1), SideSet("", <<Upper(255, 0, 0, Num(Zero))>>),
                  INum(1), SideSet("", <<Upper(255, 0, 0, Num(Zero))>>)),
     CurveElement(INum(1), ChildSet(<<P35>>),
                  INum(1), NoChildSet,
                  INum(1), SideSet("", <<Upper(255, 0, 0, Num(Zero))>>)),
     CurveElement(INum(1), ChildSet(<<P35>>),
                  INum(1), SideSet("", <<Upper(255, 0, 0, Num(Zero))>>),
                  INum(1), SideSet("", <<>>))}

\* poisson_curve elements of the whole-document specification
PoissonCurves ==
    {PoissonElement(INum(2), ChildSet(<<P35, PHalf>>),
                    INum(2), ChildSet(<<Lower(Zero, Rat(1, 2), One, Num(Rat(3, 10))),
                                        Lower(One, Zero, Zero, Num(Rat(9, 10)))>>)),
     PoissonElement(INum(1), ChildSet(<<PHalf>>),
                    INum(1), ChildSet(<<Upper(255, 0, 0, Num(RInt(4)))>>)),
     PoissonElement(INum(1), ChildSet(<<PHalf>>), INum(1), NoChildSet),
     PoissonElement(INum(2), ChildSet(<<PHalf>>),
                    INum(1), ChildSet(<<Upper(255, 0, 0, Num(RInt(4)))>>))}

\* mesh elements of the whole-document specification
Meshes ==
    {MeshElement(INum(0), IAbsent, BAbsent,
                 INum(1), ChildSet(<<P35>>),
                 INum(1), ChildSet(<<UpperColor(255, 128, 0)>>), NoTangentSet),
     MeshElement(INum(1), INum(0), BTrue,
                 INum(2), ChildSet(<<PHalf, P35>>),
                 INum(2), ChildSet(<<UpperColor(255, 128, 0),
                                     LowerColor(One, Rat(128, 255), Zero)>>),
                 TangentSet(<<PHalf, PHalf>>, <<P35, PNoX>>)),
     MeshElement(INum(-1), INum(3), BAbsent,
                 INum(0), ChildSet(<<P35>>),
                 INum(0), ChildSet(<<UpperColor(255, 128, 0)>>), NoTangentSet),
     MeshElement(INum(-2), INum(0), BAbsent,
                 INum(-1), ChildSet(<<P35>>),
                 INum(-1), ChildSet(<<UpperColor(255, 128, 0)>>), NoTangentSet),
     MeshElement(INum(2), INum(1), BAbsent,
                 INum(5), ChildSet(<<P35, P35, P35, P35, P35>>),
                 INum(6), ChildSet(<<>>), NoTangentSet),
     MeshElement(INum(0), INum(0), BAbsent,
                 INum(1), ChildSet(<<P35>>),
                 INum(2), ChildSet(<<UpperColor(255, 128, 0), UpperColor(0, 0, 0)>>),
                 NoTangentSet),
     MeshElement(INum(0), INum(0), BAbsent,
                 INum(1), ChildSet(<<>>),
                 INum(2), ChildSet(<<UpperColor(255, 128, 0), UpperColor(0, 0, 0)>>),
                 NoTangentSet),
     MeshElement(INum(0), INum(0), BAbsent,
                 INum(1), NoChildSet,
                 INum(0), ChildSet(<<UpperColor(255, 128, 0)>>), NoTangentSet),
     MeshElement(INum(0), INum(0), BAbsent,
                 INum(1), ChildSet(<<P35>>),
                 INum(1), NoChildSet, NoTangentSet),
     MeshElement(INum(1), INum(0), BAbsent,
                 INum(2), ChildSet(<<PHalf, P35>>),
                 INum(2), ChildSet(<<UpperColor(255, 128, 0), UpperColor(0, 0, 0)>>),
                 TangentSet(<<PHalf, PHalf>>, <<P35>>))}

-----------------------------------------------------------------------------
(* The whole-document specification: one load of one document holding any *)
(* of the three sections.                                                  *)

Next ==
    \/ OpenFile(FirstLines)
    \/ LoadFile
    \/ Dispatch(Roots)
    \/ BeginDiffusionCurves(BOOLEAN, SectionCounts)
    \/ ReadDiffusionCurve(Curves, Garbage, MaxRecords)
    \/ EndDiffusionCurves
    \/ BeginPoissonCurves(BOOLEAN, SectionCounts)
    \/ ReadPoissonCurve(PoissonCurves, Garbage, MaxRecords)
    \/ EndPoissonCurves
    \/ BeginGradientMeshes(BOOLEAN, SectionCounts)
    \/ ReadGradientMesh(Meshes, Garbage, MaxRecords)
    \/ EndGradientMeshes
    \/ Return

Spec == Init /\ [][Next]_vars

-----------------------------------------------------------------------------
(* Claims about a whole load, checked under Spec.                          *)

Sections == {"curve_set", "poisson_curve_set", "mesh_set"}
Markers == {"<!DOCTYPE SceneXML>", "<!DOCTYPE CurveSetXML>"}
Terminal == {"done", "failed"}

\* the messages read_gradient_meshes completes with std::to_string(i)
MeshMessages ==
    {"Cannot read mesh ",
     "Number of positions does not match the mesh size in mesh ",
     "Cannot read positions of mesh ",
     "Number of colors does not match the mesh size in mesh ",
     "Cannot read colors of mesh "}

\* the mesh element of the iteration declares a count that differs from
\* (nb_rows + 1) * (nb_cols + 1)
CountMismatch(e) ==
    LET size == (QueryIntAttribute(e.nb_rows, 0) + 1) * (QueryIntAttribute(e.nb_cols, 0) + 1)
    IN  \/ QueryIntAttribute(e.nb_positions, 0) # size
        \/ QueryIntAttribute(e.nb_colors, 0) # size

\* C1: every gradient mesh of a scene the caller holds has as many positions
\* and as many colors as (num_rows + 1) * (num_cols + 1), whatever rows, columns
\* and counts the document declared.
C1_MeshCounts ==
    result.has =>
        \A k \in 1..Len(result.scene.gradient_meshes) :
            LET m == result.scene.gradient_meshes[k]
            IN  /\ Len(m.positions) = (m.num_rows + 1) * (m.num_cols + 1)
                /\ Len(m.colors) = (m.num_rows + 1) * (m.num_cols + 1)

\* C2: a mesh whose nb_positions or nb_colors differs from
\* (nb_rows + 1) * (nb_cols + 1) is never taken into the scene: the load fails
\* on it, and the error is one of the mesh messages carrying that mesh's index,
\* whatever else the mesh element holds.
C2_MismatchNamesMesh ==
    (cur.tag = "mesh" /\ CountMismatch(cur)) =>
        /\ pc = "failed"
        /\ err.msg \in MeshMessages
        /\ err.index = i

\* C3: the branch taken is the one the first line names; with any other first
\* line the load fails with no scene, no reader is chosen and no element of
\* the document is looked up; the legacy branch swaps and the unified one
\* does not.
C3_DialectByFirstLine ==
    /\ reader = "unified" => doc_type = "<!DOCTYPE SceneXML>"
    /\ reader = "orzan" => doc_type = "<!DOCTYPE CurveSetXML>"
    /\ (doc_type # "" /\ doc_type \notin Markers) =>
          /\ pc \in {"load", "dispatch", "failed"}
          /\ reader = "none"
          /\ ~traversed
          /\ ~result.has
          /\ pc = "failed" =>
                err.msg \in {"Cannot load XML file: ", "Unrecognized DOCTYPE in XML"}
    /\ pc \notin {"construct", "load", "dispatch", "failed"} =>
          /\ reader # "none"
          /\ traversed
          /\ SwapOf(reader) <=> doc_type = "<!DOCTYPE CurveSetXML>"
    /\ reader = "orzan" =>
          /\ pc \in {"curve_set", "curves", "return", "done", "failed"}
          /\ ~present.poisson_curve_set
          /\ ~present.mesh_set

\* C3 witness: a first line one space longer than the unified marker was
\* refused at the branch.
C3_Witness ==
    /\ pc = "failed"
    /\ doc_type = "<!DOCTYPE SceneXML> "
    /\ err.msg = "Unrecognized DOCTYPE in XML"

\* the record pushed by the last iteration holds every sequence at its
\* declared length
LastPushedComplete ==
    /\ (pc = "curves" /\ cur.tag = "curve") =>
          LET c  == diffusion_curves[i]
              nl == Max0(QueryIntAttribute(cur.nb_left_colors, 0))
              nr == Max0(QueryIntAttribute(cur.nb_right_colors, 0))
          IN  /\ Len(diffusion_curves) = i
              /\ Len(c.control_points) = Max0(QueryIntAttribute(cur.nb_control_points, 0))
              /\ Len(c.colors_left) = IF reader = "orzan" THEN nr ELSE nl
              /\ Len(c.colors_right) = IF reader = "orzan" THEN nl ELSE nr
    /\ (pc = "poisson_curves" /\ cur.tag = "poisson_curve") =>
          LET c == poisson_curves[i]
          IN  /\ Len(poisson_curves) = i
              /\ Len(c.control_points) = Max0(QueryIntAttribute(cur.nb_control_points, 0))
              /\ Len(c.weights) = Max0(QueryIntAttribute(cur.nb_weights, 0))
    /\ (pc = "meshes" /\ cur.tag = "mesh") =>
          LET m == gradient_meshes[i]
              n == Max0(QueryIntAttribute(cur.nb_positions, 0))
          IN  /\ Len(gradient_meshes) = i
              /\ Len(m.positions) = n
              /\ Len(m.colors) = Max0(QueryIntAttribute(cur.nb_colors, 0))
              /\ Len(m.tangents_u) = IF cur.pos_tangent_set.present THEN n ELSE 0
              /\ Len(m.tangents_v) = IF cur.pos_tangent_set.present THEN n ELSE 0

\* a step that does not fail keeps every record already in the collections
RecordsKept ==
    pc' # "failed" =>
        /\ \A k \in 1..Len(diffusion_curves) :
              k <= Len(diffusion_curves') /\ diffusion_curves'[k] = diffusion_curves[k]
        /\ \A k \in 1..Len(poisson_curves) :
              k <= Len(poisson_curves') /\ poisson_curves'[k] = poisson_curves[k]
        /\ \A k \in 1..Len(gradient_meshes) :
              k <= Len(gradient_meshes') /\ gradient_meshes'[k] = gradient_meshes[k]

\* what the caller holds at each point of a load
OneOutcome ==
    /\ pc = "done" =>
          /\ result = [has |-> TRUE, scene |-> This]
          /\ err = NoError
          /\ Len(result.scene.diffusion_curves) = Max0(declared.curve_set)
          /\ Len(result.scene.poisson_curves) = Max0(declared.poisson_curve_set)
          /\ Len(result.scene.gradient_meshes) = Max0(declared.mesh_set)
    /\ pc = "failed" =>
          /\ ~result.has
          /\ result.scene = EmptyScene
          /\ err # NoError
    /\ pc \notin Terminal =>
          /\ ~result.has
          /\ err = NoError

\* C4: a load ends with the scene, every section at its declared number of
\* records and every record complete, or with one failure and no scene at all:
\* the records parsed before the failing one are not observable.
C4_SceneOrFailure ==
    /\ [](OneOutcome /\ LastPushedComplete)
    /\ [][RecordsKept]_vars

\* C4 witness: the load failed on the second mesh, after a curve set with
\* records and the first mesh had been parsed, and the caller holds nothing.
C4_Witness ==
    /\ pc = "failed"
    /\ cur.tag = "mesh"
    /\ i = 1
    /\ declared.curve_set > 0
    /\ ~result.has

\* C10: in the unified branch an absent section is skipped without error and
\* leaves its collection empty, whichever other sections are there; a failure
\* past the root element comes from a section that is there; with no section
\* the load succeeds with three empty collections and the declared width and
\* height, 0 for an absent attribute.
C10_SectionsOptional ==
    reader = "unified" =>
        /\ (pc = "curves" => present.curve_set)
        /\ (pc = "poisson_curves" => present.poisson_curve_set)
        /\ (pc = "meshes" => present.mesh_set)
        /\ (pc \in {"poisson_curve_set", "poisson_curves", "mesh_set", "meshes", "return", "done"}
              /\ ~present.curve_set) => diffusion_curves = <<>>
        /\ (pc \in {"mesh_set", "meshes", "return", "done"}
              /\ ~present.poisson_curve_set) => poisson_curves = <<>>
        /\ (pc \in {"return", "done"} /\ ~present.mesh_set) => gradient_meshes = <<>>
        /\ (pc = "failed" /\ root_attrs.present) => present # NoSections
        /\ (pc = "done" /\ present = NoSections) =>
              /\ result.has
              /\ result.scene.diffusion_curves = <<>>
              /\ result.scene.poisson_curves = <<>>
              /\ result.scene.gradient_meshes = <<>>
        /\ pc = "done" =>
              /\ root_attrs.image_width.st = "num" =>
                    result.scene.width = root_attrs.image_width.v
              /\ root_attrs.image_width.st = "absent" => result.scene.width = 0
              /\ root_attrs.image_height.st = "num" =>
                    result.scene.height = root_attrs.image_height.v
              /\ root_attrs.image_height.st = "absent" => result.scene.height = 0

\* C10 witness: a unified document without any section loaded as an empty
\* scene of the declared size.
C10_Witness ==
    /\ pc = "done"
    /\ reader = "unified"
    /\ present = NoSections
    /\ result.has
    /\ result.scene = Scene(200, 100, <<>>, <<>>, <<>>)

-----------------------------------------------------------------------------
(* The curve-set specification: one load of a document whose only section  *)
(* is a curve set, in either dialect, over a wider set of curve elements.  *)

\* nb_control_points and the control_point children
CurvePoints ==
    {<<INum(1), <<P35>>>>, <<INum(2), <<P35, PNoX>>>>, <<IAbsent, <<PHalf>>>>}

\* nb_left_colors and the left_color children
CurveLeftColors ==
    {<<INum(1), <<Upper(255, 0, 0, Num(Zero))>>>>,
     <<INum(2), <<Upper(255, 0, 0, Num(RInt(2))), Lower(Zero, Rat(1, 2), One, Num(RInt(4)))>>>>,
     <<INum(1), <<Upper(0, 128, 255, Num(RInt(-1)))>>>>}

\* nb_right_colors and the right_colors_set element
CurveRightColors ==
    {<<INum(1), SideSet("", <<Lower(One, Zero, Zero, Num(One))>>)>>,
     <<INum(1), SideSet("Neumann", <<Lower(One, Zero, Zero, Num(One))>>)>>,
     <<INum(2), SideSet("", <<Upper(0, 128, 255, Num(Rat(1, 2))), Upper(255, 0, 0, Num(RInt(8)))>>)>>,
     <<INum(0), SideSet("Dirichlet", <<Upper(0, 128, 255, Num(Rat(1, 2)))>>)>>,
     <<INum(1), NoChildSet>>,
     <<INum(2), SideSet("", <<Lower(One, Zero, Zero, Num(One))>>)>>}

WideCurves ==
    {CurveElement(p[1], ChildSet(p[2]), l[1], SideSet(bl, l[2]), r[1], r[2]) :
        p \in CurvePoints, l \in CurveLeftColors,
        bl \in {"", "Neumann"}, r \in CurveRightColors}

CurveRoots ==
    {NoRoot, [present |-> TRUE, image_width |-> INum(200), image_height |-> INum(100)]}

CurveCounts == {IAbsent, INum(MaxCurves), INum(MaxCurves + 1)}

NextCurve ==
    \/ OpenFile(FirstLines)
    \/ LoadFile
    \/ Dispatch(CurveRoots)
    \/ BeginDiffusionCurves({TRUE}, CurveCounts)
    \/ ReadDiffusionCurve(WideCurves, Garbage, MaxCurves)
    \/ EndDiffusionCurves
    \/ BeginPoissonCurves({FALSE}, {IAbsent})
    \/ BeginGradientMeshes({FALSE}, {IAbsent})
    \/ Return

SpecCurve == Init /\ [][NextCurve]_vars

\* the four exchanges of the legacy dialect, applied to a curve
Exchanged(c) ==
    [control_points |-> [k \in 1..Len(c.control_points) |->
                            <<c.control_points[k][2], c.control_points[k][1]>>],
     colors_left    |-> [k \in 1..Len(c.colors_right) |->
                            <<c.colors_right[k][3], c.colors_right[k][2],
                              c.colors_right[k][1], c.colors_right[k][4]>>],
     colors_right   |-> [k \in 1..Len(c.colors_left) |->
                            <<c.colors_left[k][3], c.colors_left[k][2],
                              c.colors_left[k][1], c.colors_left[k][4]>>],
     boundary_left  |-> c.boundary_right,
     boundary_right |-> c.boundary_left]

\* C5: a curve the legacy branch has taken into the scene is the curve the
\* unswapped reader builds from the same element, with x/y of every control
\* point, R/B of every color, the two color sequences and the two boundary
\* conditions exchanged.
C5_LegacyIsExchanged ==
    (pc = "curves" /\ cur.tag = "curve" /\ reader = "orzan") =>
        \E g \in [1..3 -> Garbage] :
            LET plain == ParseDiffusionCurve(cur, i - 1, FALSE, height, width, g)
            IN  /\ plain.ok
                /\ diffusion_curves[i] = Exchanged(plain.val)

\* C5 witness: the legacy branch read control point x=3, y=5 and one left
\* color R=255, G=0, B=0 under a left boundary that differs from the right one,
\* and stored control point (5, 3) and the right-side color (0, 0, 1).
C5_Witness ==
    /\ pc = "curves"
    /\ reader = "orzan"
    /\ cur.tag = "curve"
    /\ cur.control_points_set.kids[1] = P35
    /\ cur.left_colors_set.kids = <<Upper(255, 0, 0, Num(Zero))>>
    /\ cur.left_colors_set.boundary = "Neumann"
    /\ cur.right_colors_set.boundary = ""
    /\ diffusion_curves[i].control_points[1] = <<RInt(5), RInt(3)>>
    /\ diffusion_curves[i].colors_right = <<<<Zero, Zero, One, Zero>>>>
    /\ diffusion_curves[i].boundary_right = "Neumann"
    /\ diffusion_curves[i].boundary_left = "Dirichlet"

\* the parameters of a sequence of color points lie in [0, 1]
UnitParameters(cps) ==
    \A k \in 1..Len(cps) : RLe(Zero, cps[k][4]) /\ RLe(cps[k][4], One)

\* C6: in a scene the caller holds, the parameter of every left color, right
\* color and Poisson weight lies in [0, 1], whatever globalID the document gave.
C6_ParametersInUnitInterval ==
    result.has =>
        /\ \A k \in 1..Len(result.scene.diffusion_curves) :
              /\ UnitParameters(result.scene.diffusion_curves[k].colors_left)
              /\ UnitParameters(result.scene.diffusion_curves[k].colors_right)
        /\ \A k \in 1..Len(result.scene.poisson_curves) :
              UnitParameters(result.scene.poisson_curves[k].weights)

-----------------------------------------------------------------------------
(* The primitive-reader specification: the three primitive readers called  *)
(* directly, on every list of children up to the bounds and every count    *)
(* and flag, by a scene whose width and height have been read.  A          *)
(* behaviour makes one call.                                               *)

SeqsUpTo(S, n) == UNION {[1..k -> S] : k \in 0..n}

\* <<width, height>> of the scene
Sizes == {<<200, 100>>, <<0, 0>>}

PointElements ==
    {PointElement(x, y) : x \in {Absent, Num(Rat(1, 2)), Num(RInt(3))},
                          y \in {Absent, Num(Rat(1, 4)), Num(RInt(5))}}

\* <<uppercase, lowercase>> attributes of the first, second and third channel
RedAttributes ==
    {<<Num(RInt(255)), Absent>>, <<Absent, Num(One)>>, <<Absent, Absent>>,
     <<Bad, Num(One)>>, <<Num(RInt(255)), Num(Rat(1, 2))>>}
GreenAttributes == {<<Num(RInt(128)), Absent>>, <<Absent, Num(Rat(128, 255))>>}
BlueAttributes == {<<Num(RInt(0)), Absent>>, <<Absent, Num(Zero)>>}

ColorElements ==
    {ColorElement(R[1], R[2], G[1], G[2], B[1], B[2]) :
        R \in RedAttributes, G \in GreenAttributes, B \in BlueAttributes}

GlobalIDs ==
    {Absent, Num(RInt(-1)), Num(Zero), Num(Rat(3, 10)), Num(Rat(9, 10)),
     Num(RInt(2)), Num(RInt(4))}

ColorPointElements ==
    {ColorPointElement(Num(RInt(255)), Absent, Absent, Num(Rat(128, 255)),
                       Num(RInt(0)), Num(One), t) : t \in GlobalIDs}
    \cup {Upper(255, 128, 0, Num(RInt(2))), Lower(One, Rat(128, 255), Zero, Num(RInt(2)))}

InitReaders ==
    /\ pc = "readers"
    /\ doc_type = ""
    /\ reader = "none"
    /\ traversed = FALSE
    /\ root_attrs = NoRoot
    /\ present = NoSections
    /\ declared = NoCounts
    /\ \E size \in Sizes : width = size[1] /\ height = size[2]
    /\ num = 0
    /\ i = 0
    /\ cur = NoElement
    /\ diffusion_curves = <<>>
    /\ poisson_curves = <<>>
    /\ gradient_meshes = <<>>
    /\ err = NoError
    /\ result = NoResult
    /\ args = NoCall
    /\ ret = Ok(<<>>)

\* a call of read_points (reader.hpp:447)
CallReadPoints ==
    /\ pc = "readers"
    /\ \E children \in SeqsUpTo(PointElements, MaxPoints), n \in -1..(MaxPoints + 1),
          is_normalized \in BOOLEAN, swap \in BOOLEAN, garbage \in Garbage :
         /\ args' = Call("read_points", children, "position", n, is_normalized, swap)
         /\ ret' = read_points(children, "position", n, is_normalized, swap,
                               height, width, garbage)
    /\ pc' = "called"
    /\ UNCHANGED <<doc_type, reader, traversed, root_attrs, present, declared,
                   width, height, num, i, cur, diffusion_curves, poisson_curves,
                   gradient_meshes, err, result>>

\* a call of read_colors (reader.hpp:491)
CallReadColors ==
    /\ pc = "readers"
    /\ \E children \in SeqsUpTo(ColorElements, MaxColors), n \in -1..(MaxColors + 1),
          swap \in BOOLEAN, garbage \in Garbage :
         /\ args' = Call("read_colors", children, "color", n, FALSE, swap)
         /\ ret' = read_colors(children, "color", n, swap, garbage)
    /\ pc' = "called"
    /\ UNCHANGED <<doc_type, reader, traversed, root_attrs, present, declared,
                   width, height, num, i, cur, diffusion_curves, poisson_curves,
                   gradient_meshes, err, result>>

\* a call of read_color_points (reader.hpp:556)
CallReadColorPoints ==
    /\ pc = "readers"
    /\ \E children \in SeqsUpTo(ColorPointElements, MaxColorPoints),
          n \in -1..(MaxColorPoints + 1), swap \in BOOLEAN, garbage \in Garbage :
         /\ args' = Call("read_color_points", children, "left_color", n, FALSE, swap)
         /\ ret' = read_color_points(children, "left_color", n, swap, garbage)
    /\ pc' = "called"
    /\ UNCHANGED <<doc_type, reader, traversed, root_attrs, present, declared,
                   width, height, num, i, cur, diffusion_curves, poisson_curves,
                   gradient_meshes, err, result>>

NextReaders == CallReadPoints \/ CallReadColors \/ CallReadColorPoints

SpecReaders == InitReaders /\ [][NextReaders]_vars

-----------------------------------------------------------------------------
(* Claims about the primitive readers, checked under SpecReaders.          *)

\* the call delivered a sequence
Delivered(fn) == pc = "called" /\ args.fn = fn /\ ret.ok

\* the globalID values of the children a call read, when each of them has one
HasGlobalIDs == \A k \in 1..Len(ret.val) : args.children[k].globalID.st = "num"
GlobalIDsRead == [k \in 1..Len(ret.val) |-> args.children[k].globalID.v]
Parameters == [k \in 1..Len(ret.val) |-> ret.val[k][4]]

\* the largest value of a non-empty sequence of rationals
Largest(ids) ==
    CHOOSE m \in {ids[k] : k \in 1..Len(ids)} : \A k \in 1..Len(ids) : RLe(ids[k], m)

\* C7: read_color_points divides every parameter of the sequence it read by
\* the largest globalID of that sequence when that is above 1, and stores the
\* globalIDs as they are when none is above 1; either way a second
\* normalisation of what it delivered changes nothing.  So <<0, 2, 4>> is
\* stored as <<0, 1/2, 1>> and <<0, 3/10, 9/10>> as it is.
C7_NormalizedOncePerSequence ==
    Delivered("read_color_points") =>
        /\ Normalize(ret.val) = ret.val
        /\ (HasGlobalIDs /\ Len(ret.val) > 0) =>
              LET ids == GlobalIDsRead
                  M   == Largest(ids)
              IN  /\ RGt(M, One) =>
                        \A k \in 1..Len(ids) : Parameters[k] = RDiv(ids[k], M)
                  /\ RLe(M, One) => Parameters = ids
                  /\ ids = <<Zero, RInt(2), RInt(4)>> =>
                        Parameters = <<Zero, Rat(1, 2), One>>
                  /\ ids = <<Zero, Rat(3, 10), Rat(9, 10)>> => Parameters = ids

\* C7 witness: the globalIDs 0, 2, 4 were read and stored as 0, 1/2, 1.
C7_Witness ==
    /\ Delivered("read_color_points")
    /\ HasGlobalIDs
    /\ GlobalIDsRead = <<Zero, RInt(2), RInt(4)>>
    /\ Parameters = <<Zero, Rat(1, 2), One>>

\* C8: read_points stores a normalized point as (x * height, y * width) and
\* any other point as read, and exchanges the two coordinates, when asked to,
\* after the scaling.  So the normalized position (1/2, 1/4) of a scene of
\* width 200 and height 100 is stored as (50, 50).
C8_PointsScaledThenSwapped ==
    Delivered("read_points") =>
        \A k \in 1..Len(ret.val) :
            LET e == args.children[k]
            IN  (e.x.st = "num" /\ e.y.st = "num") =>
                    LET x == IF args.is_normalized THEN RMul(e.x.v, RInt(height)) ELSE e.x.v
                        y == IF args.is_normalized THEN RMul(e.y.v, RInt(width)) ELSE e.y.v
                    IN  /\ ret.val[k] = IF args.swap THEN <<y, x>> ELSE <<x, y>>
                        /\ (e = PHalf /\ args.is_normalized /\ ~args.swap
                              /\ width = 200 /\ height = 100) =>
                              ret.val[k] = <<RInt(50), RInt(50)>>

\* C8 witness: a normalized and swapped read of (3, 5) in a scene of width 200
\* and height 100 stored (1000, 300).
C8_Witness ==
    /\ Delivered("read_points")
    /\ args.is_normalized
    /\ args.swap
    /\ width = 200
    /\ height = 100
    /\ Len(ret.val) = 2
    /\ args.children[2] = P35
    /\ ret.val[2] = <<RInt(1000), RInt(300)>>

\* the channel decoded from an <<uppercase, lowercase>> pair of attributes
\* agrees with the claim's rule
ChannelAsClaimed(upper, lower, value) ==
    /\ upper.st = "num" => value = Rat(upper.v[1], upper.v[2] * 255)
    /\ (upper.st = "absent" /\ lower.st = "num") => value = lower.v

\* C9: read_colors and read_color_points decode each channel by itself, the
\* uppercase attribute divided by 255 if it is there and the lowercase one as
\* it is otherwise, and exchange the first and third channel, when asked to,
\* after decoding.  So R=255, G=128, B=0 and r=1, g=128/255, b=0 decode to the
\* same color.
C9_ChannelsDecodedIndependently ==
    (Delivered("read_colors") \/ Delivered("read_color_points")) =>
        \A k \in 1..Len(ret.val) :
            LET e     == args.children[k]
                first == IF args.swap THEN 3 ELSE 1
                third == IF args.swap THEN 1 ELSE 3
            IN  /\ ChannelAsClaimed(e.R, e.r, ret.val[k][first])
                /\ ChannelAsClaimed(e.G, e.g, ret.val[k][2])
                /\ ChannelAsClaimed(e.B, e.b, ret.val[k][third])
                /\ (\/ <<e.R, e.G, e.B>> = <<Num(RInt(255)), Num(RInt(128)), Num(RInt(0))>>
                    \/ (/\ <<e.R, e.G, e.B>> = <<Absent, Absent, Absent>>
                        /\ <<e.r, e.g, e.b>> = <<Num(One), Num(Rat(128, 255)), Num(Zero)>>)) =>
                      <<ret.val[k][first], ret.val[k][2], ret.val[k][third]>>
                          = <<One, Rat(128, 255), Zero>>

\* C9 witness: one swapped read_colors call decoded an element with R=255 and
\* r=1/2, g=128/255 and B=0 to (0, 128/255, 1), and next to it the all-lowercase
\* element r=1, g=128/255, b=0 to the same color.
C9_Witness ==
    /\ Delivered("read_colors")
    /\ args.swap
    /\ Len(ret.val) = 2
    /\ args.children[1] = ColorElement(Num(RInt(255)), Num(Rat(1, 2)), Absent,
                                       Num(Rat(128, 255)), Num(RInt(0)), Absent)
    /\ args.children[2] = LowerColor(One, Rat(128, 255), Zero)
    /\ ret.val[1] = <<Zero, Rat(128, 255), One>>
    /\ ret.val[2] = ret.val[1]

\* C11: read_points stores 0 for a coordinate whose attribute is missing on
\* the element (scaled and exchanged like any other), so that the stored point
\* is a function of the element and the flags alone.
C11_MissingCoordinateIsZero ==
    Delivered("read_points") =>
        \A k \in 1..Len(ret.val) :
            LET e == args.children[k]
                x == IF args.swap THEN ret.val[k][2] ELSE ret.val[k][1]
                y == IF args.swap THEN ret.val[k][1] ELSE ret.val[k][2]
            IN  /\ e.x.st = "absent" => x = Zero
                /\ e.y.st = "absent" => y = Zero

\* the call was made with a declared count that is not negative
Called == pc = "called" /\ args.num >= 0

\* record k of what a call delivered is what the reader makes of child k
FromChild(k) ==
    \E garbage \in Garbage :
        LET e == args.children[k]
        IN  CASE args.fn = "read_points" ->
                   ret.val[k] = PointOf(e, args.is_normalized, args.swap, height, width, garbage)
              [] args.fn = "read_colors" ->
                   ret.val[k] = ColorOf(e, args.swap, garbage)
              [] args.fn = "read_color_points" ->
                   <<ret.val[k][1], ret.val[k][2], ret.val[k][3]>> = ColorOf(e, args.swap, garbage)

\* C12: a primitive read for a declared count n >= 0 fails when the parent has
\* no child of the name or fewer than n of them, and otherwise delivers exactly
\* n records, record k made of the k-th child, whatever children follow the
\* n-th; nothing shorter than n is ever delivered.
C12_ExactlyDeclaredCount ==
    Called =>
        IF Len(args.children) = 0 \/ Len(args.children) < args.num
        THEN ~ret.ok /\ ret.val = <<>>
        ELSE /\ ret.ok
             /\ Len(ret.val) = args.num
             /\ \A k \in 1..args.num : FromChild(k)

\* C12 witness: read_points was asked for one point of a parent with two
\* different children, and delivered one point, the first child's.
C12_Witness ==
    /\ Called
    /\ args.fn = "read_points"
    /\ args.num = 1
    /\ ~args.is_normalized
    /\ ~args.swap
    /\ args.children = <<P35, PointElement(Num(Rat(1, 2)), Num(Rat(1, 4)))>>
    /\ ret.ok
    /\ ret.val = <<<<RInt(3), RInt(5)>>>>

-----------------------------------------------------------------------------
(* Claims about the records of a section, checked under SpecCurve and Spec. *)

\* the messages read_diffusion_curves completes with std::to_string(i)
CurveMessages ==
    {"Cannot read curve ",
     "Cannot read control points of diffusion curve ",
     "Cannot read left colors of diffusion curve ",
     "Cannot read right colors of diffusion curve "}

\* C13: a failure raised while the curve at index i is parsed, be it a missing
\* child set or a sequence shorter than its declared count, is one of the
\* curve's own messages and carries i.
C13_CurveFailureNamesCurve ==
    (pc = "failed" /\ cur.tag = "curve") =>
        /\ err.msg \in CurveMessages
        /\ err.index = i

\* the loops over the records of a section, and the collection each fills
RecordStages == {"curves", "poisson_curves", "meshes"}

Records(stage) ==
    CASE stage = "curves" -> diffusion_curves
      [] stage = "poisson_curves" -> poisson_curves
      [] stage = "meshes" -> gradient_meshes

\* the messages for a record that is not there
MissingRecord(stage) == IF stage = "meshes" THEN "Cannot read mesh " ELSE "Cannot read curve "

\* rec is what the section's parser makes of the element e at index idx
BuiltFrom(stage, rec, e, idx) ==
    CASE stage = "curves" ->
           \E g \in [1..3 -> Garbage] :
               LET r == ParseDiffusionCurve(e, idx, SwapOf(reader), height, width, g)
               IN  r.ok /\ rec = r.val
      [] stage = "poisson_curves" ->
           \E g \in [1..2 -> Garbage] :
               LET r == ParsePoissonCurve(e, idx, height, width, g)
               IN  r.ok /\ rec = r.val
      [] stage = "meshes" ->
           \E g \in [1..4 -> Garbage] :
               LET r == ParseGradientMesh(e, idx, height, width, g)
               IN  r.ok /\ rec = r.val

\* inside a loop, the collection holds one entry per child walked so far and
\* never more than declared; in the scene the caller holds, each section that
\* was read holds exactly its declared number of entries
CountsAsDeclared ==
    /\ pc \in RecordStages =>
          /\ Len(Records(pc)) = i
          /\ i <= Max0(num)
    /\ pc = "done" =>
          /\ (present.curve_set /\ declared.curve_set >= 0) =>
                Len(result.scene.diffusion_curves) = declared.curve_set
          /\ (present.poisson_curve_set /\ declared.poisson_curve_set >= 0) =>
                Len(result.scene.poisson_curves) = declared.poisson_curve_set
          /\ (present.mesh_set /\ declared.mesh_set >= 0) =>
                Len(result.scene.gradient_meshes) = declared.mesh_set

\* one step of a loop: the child at index i becomes entry i of the collection,
\* or the load fails, at i when it is the child that is missing, or the loop
\* is left with every declared record read and no further child looked at
RecordByRecord ==
    (pc \in RecordStages /\ vars' # vars) =>
        LET before == Records(pc)
            after  == CASE pc = "curves" -> diffusion_curves'
                        [] pc = "poisson_curves" -> poisson_curves'
                        [] pc = "meshes" -> gradient_meshes'
        IN  IF pc' = pc
            THEN /\ i < num
                 /\ i' = i + 1
                 /\ cur'.tag # "none"
                 /\ Len(after) = i + 1
                 /\ \A k \in 1..i : after[k] = before[k]
                 /\ BuiltFrom(pc, after[i + 1], cur', i)
            ELSE IF pc' = "failed"
            THEN /\ i < num
                 /\ cur'.tag = "none" => err' = Error(MissingRecord(pc), "", i)
            ELSE /\ i = Max0(num)
                 /\ after = before
                 /\ cur'.tag = "none"

\* C14: a section declaring n >= 0 records loads as exactly n entries, the
\* k-th built from the k-th child of the section's record name in document
\* order; with fewer than n children the load fails at the first index that
\* is missing, and no child after the n-th is looked at.  The same for
\* curve, poisson_curve and mesh.
C14_OneEntryPerDeclaredRecord ==
    /\ []CountsAsDeclared
    /\ [][RecordByRecord]_vars

\* C14 witness: a load ended with two curves declared and two entries in the
\* collection.
C14_Witness ==
    /\ pc = "done"
    /\ result.has
    /\ present.curve_set
    /\ declared.curve_set = 2
    /\ Len(result.scene.diffusion_curves) = 2
    /\ result.scene.diffusion_curves[1] # result.scene.diffusion_curves[2]

====
